---- MODULE Spec2Model ----
(***************************************************************************)
(* Model of src/task_4.py: a straight-line analysis script that loads a    *)
(* road-accident CSV, drops the rows with a missing key field, tabulates   *)
(* frequencies and cross-tabulations, saves six charts, runs four          *)
(* chi-square tests and writes two CSV files.                              *)
(*                                                                         *)
(* A run is a sequence of steps in source order; an exception raised by a  *)
(* step ends the run (the script has no try/except).  The files the run    *)
(* leaves behind stay on disk, and the script may be run again on them.    *)
(*                                                                         *)
(* Cell values are strings.  The chi-square statistic and the p-value are  *)
(* real-valued functions of the contingency table and are not carried;    *)
(* the degrees of freedom and the table shape are.  Proportions are exact  *)
(* fractions [n, d], with d = 0 standing for the NaN of 0/0.               *)
(***************************************************************************)
EXTENDS Integers, Sequences, FiniteSets

VARIABLES
    csv,             \* the input file: [exists, header, rows]
    fs,              \* files on disk under out_dir: name -> [exists, data]
    dirExists,       \* whether out_dir exists
    pc,              \* the step the run is at
    err,             \* the exception that ended the run, or "none"
    df,              \* line 17
    missing_before,  \* line 24
    df_clean,        \* lines 27-34
    counts_weather, counts_road, counts_light,
    counts_junction, counts_lanes, counts_cause,   \* lines 37-42
    pivot_w_s, pivot_w_s_norm, pivot_heat,         \* lines 99, 101, 115
    var_i,           \* position of the loop of line 135
    table,           \* run_chi2's local table, line 131
    tests,           \* line 129, 136: pairs in insertion order
    tests_df,        \* lines 139-140
    done,            \* history: the steps this run has completed, in order
    written,         \* history: the files this run has written
    rerun,           \* history: whether this is the second run on the input
    fsBefore         \* history: the files as the previous run left them

vars == << csv, fs, dirExists, pc, err, df, missing_before, df_clean,
           counts_weather, counts_road, counts_light, counts_junction,
           counts_lanes, counts_cause, pivot_w_s, pivot_w_s_norm, pivot_heat,
           var_i, table, tests, tests_df, done, written, rerun, fsBefore >>

----------------------------------------------------------------------------
(* Bounds of the explored inputs *)

MaxRows == 4

MaxCauses == 17

MaxExtra == 2

(* head(15), line 42 *)
TopN == 15

----------------------------------------------------------------------------
(* Values *)

cols_of_interest ==
    << "Road_surface_type", "Weather_conditions", "Light_conditions",
       "Types_of_Junction", "Lanes_or_Medians", "Cause_of_accident",
       "Accident_severity", "Type_of_collision" >>

Range(s) == { s[i] : i \in 1..Len(s) }

Min(a, b) == IF a <= b THEN a ELSE b

(* pandas' missing value *)
NaN == "<NaN>"

(* cells read_csv takes for missing (a part of its default na_values) *)
NaStrings == { "", "NA", "NaN", "N/A", "null" }

(* Python's order on the strings that occur: sorted() and the sorted labels
   of crosstab list values in this order. *)
Lexicon ==
    << "Asphalt roads", "Changing lane to the left",
       "Changing lane to the right", "Clear", "Crossing", "Darkness",
       "Daylight", "Driving at high speed", "Driving carelessly",
       "Driving to the left", "Driving under the influence of drugs",
       "Drunk driving", "Earth roads", "Fatal", "Fog",
       "Getting off the vehicle improperly", "Improper parking",
       "Moving Backward", "No distancing", "No priority to pedestrian",
       "No priority to vehicle", "Other", "Overloading", "Overspeed",
       "Overtaking", "Overturning", "Rain", "Rollover", "Slight", "Turnover",
       "Undivided Two way", "Unknown", "Y Shape" >>

(* sorted(S) for a set S of strings *)
Sorted(S) == SelectSeq(Lexicon, LAMBDA v : v \in S)

CauseNames ==
    << "Changing lane to the left", "Changing lane to the right",
       "Driving at high speed", "Driving carelessly", "Driving to the left",
       "Driving under the influence of drugs", "Drunk driving",
       "Getting off the vehicle improperly", "Improper parking",
       "Moving Backward", "No distancing", "No priority to pedestrian",
       "No priority to vehicle", "Other", "Overloading", "Overspeed",
       "Overtaking", "Overturning", "Turnover", "Unknown" >>

----------------------------------------------------------------------------
(* Input files *)

RawRow(w, s) ==
    [ Road_surface_type  |-> IF w = "Rain" THEN "Earth roads" ELSE "Asphalt roads",
      Weather_conditions |-> w,
      Light_conditions   |-> IF s = "Fatal" THEN "Darkness" ELSE "Daylight",
      Types_of_Junction  |-> IF w = "Clear" THEN "Y Shape" ELSE "Crossing",
      Lanes_or_Medians   |-> "Undivided Two way",
      Cause_of_accident  |-> IF s = "Fatal" THEN "Overspeed" ELSE "Overtaking",
      Accident_severity  |-> s,
      Type_of_collision  |-> "Rollover" ]

BaseRow == RawRow("Clear", "Slight")

(* BaseRow with the cell of column c left empty *)
Blanked(c) ==
    [ BaseRow EXCEPT ![c] = IF c = "Type_of_collision" THEN "NA" ELSE "" ]

Pool ==
    << RawRow("Clear", "Slight"), RawRow("Clear", "Fatal"),
       RawRow("Rain", "Slight"), RawRow("Rain", "Fatal"),
       RawRow("Fog", "Slight") >>

NonDecreasing(n, m) ==
    { s \in [1..n -> 1..m] : \A i \in 1..(n - 1) : s[i] <= s[i + 1] }

(* Up to MaxRows complete rows drawn from Pool *)
CompleteRows ==
    UNION { { [ i \in 1..n |-> Pool[s[i]] ] : s \in NonDecreasing(n, Len(Pool)) }
            : n \in 0..MaxRows }

(* Files of complete rows, with or without a last row that has a cell missing *)
SmallRows ==
    CompleteRows \cup
    { r \o << Blanked(c) >> : r \in CompleteRows, c \in Range(cols_of_interest) }

CauseRow(k) == [ BaseRow EXCEPT !["Cause_of_accident"] = CauseNames[k] ]

(* Files with n distinct causes, n around TopN, followed by up to MaxExtra
   more rows with one of the last three of those causes *)
ManyCauseRows ==
    UNION { UNION { { [ i \in 1..(n + e) |->
                          IF i <= n THEN CauseRow(i)
                          ELSE CauseRow(n - 3 + x[i - n]) ]
                      : x \in NonDecreasing(e, 3) }
                    : e \in 0..MaxExtra }
            : n \in (TopN - 1)..MaxCauses }

FullFiles ==
    { [ exists |-> TRUE, header |-> cols_of_interest, rows |-> r ]
      : r \in SmallRows \cup ManyCauseRows }

Without(k) == SelectSeq(cols_of_interest, LAMBDA c : c # cols_of_interest[k])

(* Files that lack one of the key columns *)
ShortFiles ==
    { [ exists |-> TRUE, header |-> Without(k),
        rows |-> [ i \in 1..n |-> [ c \in Range(Without(k)) |-> BaseRow[c] ] ] ]
      : k \in 1..Len(cols_of_interest), n \in 0..1 }

NoFile == [ exists |-> FALSE, header |-> << >>, rows |-> << >> ]

Inputs == FullFiles \cup ShortFiles \cup { NoFile }

----------------------------------------------------------------------------
(* Files under out_dir *)

Images ==
    { "weather_counts.png", "road_surface_counts.png",
      "light_conditions_counts.png", "top_causes.png",
      "severity_by_weather_stacked.png", "weather_vs_road_heatmap.png" }

CsvFiles == { "cleaned_for_analysis.csv", "chi2_tests_summary.csv" }

FileNames == Images \cup CsvFiles

Absent == [ exists |-> FALSE, data |-> << >> ]

(* open(name, "a"): data is added after what the file holds *)
AppendFile(f, name, data) ==
    [ f EXCEPT ![name] = [ exists |-> TRUE, data |-> f[name].data \o data ] ]

(* open(name, "w") and write: the file holds data and nothing else *)
WriteFile(f, name, data) ==
    [ f EXCEPT ![name] = [ exists |-> TRUE, data |-> data ] ]

----------------------------------------------------------------------------
(* pandas operations, on frames [columns, rows] *)

EmptyFrame == [ columns |-> << >>, rows |-> << >> ]

(* pd.read_csv: the header's columns, the cells in NaStrings read as NaN *)
read_csv(file) ==
    [ columns |-> file.header,
      rows |-> [ i \in 1..Len(file.rows) |->
                   [ c \in DOMAIN file.rows[i] |->
                       IF file.rows[i][c] \in NaStrings THEN NaN
                       ELSE file.rows[i][c] ] ] ]

(* df[cols].isnull().sum() *)
isnull_sum(frame, cols) ==
    [ c \in Range(cols) |->
        Cardinality({ i \in 1..Len(frame.rows) : frame.rows[i][c] = NaN }) ]

(* dropna(how='all'): only the rows with NaN in every one of cols go *)
dropna_all(frame, cols) ==
    [ frame EXCEPT !.rows =
        SelectSeq(frame.rows, LAMBDA r : \E c \in Range(cols) : r[c] # NaN) ]

(* df.dropna(subset=cols): the rows with no NaN in cols, in order *)
dropna(frame, cols) ==
    [ frame EXCEPT !.rows =
        SelectSeq(frame.rows, LAMBDA r : \A c \in Range(cols) : r[c] # NaN) ]

(* Series.unique() of column c *)
unique(frame, c) == { frame.rows[i][c] : i \in 1..Len(frame.rows) }

(* The dtype of a column of strings: object, unless every cell of the file
   was missing, which read_csv types float64. *)
IsObject(frame, c) ==
    \/ Len(frame.rows) = 0
    \/ \E i \in 1..Len(frame.rows) : frame.rows[i][c] # NaN

(* pd.Categorical(values, categories=cats): a value outside cats is NaN *)
Categorical(frame, c, cats) ==
    [ frame EXCEPT !.rows =
        [ i \in 1..Len(frame.rows) |->
            [ frame.rows[i] EXCEPT ![c] =
                IF frame.rows[i][c] \in Range(cats) THEN frame.rows[i][c]
                ELSE NaN ] ] ]

(* The distinct non-missing values of column c, in order of first
   appearance: the keys of the hash table value_counts fills. *)
FirstSeen(frame, c) ==
    LET n == Len(frame.rows)
        firsts == SelectSeq([ i \in 1..n |-> i ],
                            LAMBDA i : /\ frame.rows[i][c] # NaN
                                       /\ \A j \in 1..(i - 1) :
                                            frame.rows[j][c] # frame.rows[i][c])
    IN  [ k \in 1..Len(firsts) |-> frame.rows[firsts[k]][c] ]

Occurrences(frame, c, v) ==
    Cardinality({ i \in 1..Len(frame.rows) : frame.rows[i][c] = v })

(* value_counts(sort=False): the counts stay in order of first appearance *)
KeepOrder(s) == s

(* Series.sort_values(ascending=False) of a table of counts: larger counts
   first, equal counts in the order they had. *)
SortDescending(s) ==
    LET place(p) == 1 + Cardinality({ q \in 1..Len(s) : s[q].count > s[p].count })
                      + Cardinality({ q \in 1..(p - 1) : s[q].count = s[p].count })
    IN  [ r \in 1..Len(s) |-> s[CHOOSE p \in 1..Len(s) : place(p) = r] ]

(* Series.sort_values(): smaller counts first *)
sort_values(s) ==
    LET place(p) == 1 + Cardinality({ q \in 1..Len(s) : s[q].count < s[p].count })
                      + Cardinality({ q \in 1..(p - 1) : s[q].count = s[p].count })
    IN  [ r \in 1..Len(s) |-> s[CHOOSE p \in 1..Len(s) : place(p) = r] ]

(* Series.value_counts(): one entry per distinct value, by descending count *)
value_counts(frame, c) ==
    LET keys == FirstSeen(frame, c)
    IN  SortDescending([ k \in 1..Len(keys) |->
                           [ value |-> keys[k],
                             count |-> Occurrences(frame, c, keys[k]) ] ])

(* Series.head(n) *)
head(s, n) == SubSeq(s, 1, Min(n, Len(s)))

RECURSIVE SumSeq(_)
SumSeq(s) == IF Len(s) = 0 THEN 0 ELSE s[1] + SumSeq(Tail(s))

EmptyTable == [ index |-> << >>, columns |-> << >>, cells |-> << >> ]

(* A crosstab whose row labels are those of the table as loaded, dropped
   rows included *)
crosstab_raw_labels(frame, a, b) ==
    LET index   == Sorted(unique(df, a))
        columns == Sorted(unique(frame, b))
    IN  [ index   |-> index,
          columns |-> columns,
          cells   |-> [ p \in Range(index) \X Range(columns) |->
                          Cardinality({ i \in 1..Len(frame.rows) :
                                          /\ frame.rows[i][a] = p[1]
                                          /\ frame.rows[i][b] = p[2] }) ] ]

(* pd.crosstab(frame[a], frame[b]): a row per value of a and a column per
   value of b that occurs, labels sorted, each cell the number of rows with
   that pair.  Labels with no row are not part of the result (dropna=True). *)
crosstab(frame, a, b) ==
    LET index   == Sorted(unique(frame, a))
        columns == Sorted(unique(frame, b))
    IN  [ index   |-> index,
          columns |-> columns,
          cells   |-> [ p \in Range(index) \X Range(columns) |->
                          Cardinality({ i \in 1..Len(frame.rows) :
                                          /\ frame.rows[i][a] = p[1]
                                          /\ frame.rows[i][b] = p[2] }) ] ]

(* DataFrame.shape *)
shape(t) == << Len(t.index), Len(t.columns) >>

(* t.sum(axis=1) at row x, t.sum(axis=0) at column y, t.sum().sum() *)
RowTotal(t, x) ==
    SumSeq([ j \in 1..Len(t.columns) |-> t.cells[<< x, t.columns[j] >>] ])

ColTotal(t, y) ==
    SumSeq([ i \in 1..Len(t.index) |-> t.cells[<< t.index[i], y >>] ])

GrandTotal(t) ==
    SumSeq([ i \in 1..Len(t.index) |-> RowTotal(t, t.index[i]) ])

(* t.div(t.sum(axis=0), axis=1): each cell over the total of its column *)
div_cols(t) ==
    [ t EXCEPT !.cells =
        [ p \in DOMAIN t.cells |-> [ n |-> t.cells[p], d |-> ColTotal(t, p[2]) ] ] ]

(* t.div(t.sum(axis=1), axis=0): each cell over the total of its row; 0/0 is
   the fraction with d = 0 *)
div_rows(t) ==
    [ t EXCEPT !.cells =
        [ p \in DOMAIN t.cells |-> [ n |-> t.cells[p], d |-> RowTotal(t, p[1]) ] ] ]

(* .fillna(0) *)
fillna0(t) ==
    [ t EXCEPT !.cells =
        [ p \in DOMAIN t.cells |->
            IF t.cells[p].d = 0 THEN [ n |-> 0, d |-> 1 ] ELSE t.cells[p] ] ]

(* the degrees of freedom of a goodness-of-fit test on the cells *)
DofCells(sh) == sh[1] * sh[2] - 1

(* scipy's degrees of freedom of an observed table of this shape:
   observed.size - sum(observed.shape) + observed.ndim - 1 *)
Dof(sh) == sh[1] * sh[2] - (sh[1] + sh[2]) + 2 - 1

(* chi2_contingency(t): ValueError for a table of size 0 or one with a zero
   expected frequency row_total * col_total / grand_total *)
chi2_contingency(t) ==
    IF \/ Len(t.index) * Len(t.columns) = 0
       \/ \E x \in Range(t.index), y \in Range(t.columns) :
            RowTotal(t, x) * ColTotal(t, y) = 0
    THEN [ ok |-> FALSE, dof |-> 0 ]
    ELSE [ ok |-> TRUE, dof |-> Dof(shape(t)) ]

(* DataFrame.to_csv(index=False): the header line, then a line per row with
   NaN written as the empty string *)
to_csv(frame) ==
    << frame.columns >> \o
    [ i \in 1..Len(frame.rows) |->
        [ j \in 1..Len(frame.columns) |->
            IF frame.rows[i][frame.columns[j]] = NaN THEN ""
            ELSE frame.rows[i][frame.columns[j]] ] ]

(* tests_df.to_csv(index=False), the chi2 and p_value columns left out *)
summary_csv(t) ==
    << << "variable", "dof", "table_shape" >> >> \o
    [ i \in 1..Len(t) |-> << t[i].variable, t[i].dof, t[i].table_shape >> ]

----------------------------------------------------------------------------
(* The run *)

(* the variables of line 135 *)
TestVars ==
    << "Weather_conditions", "Road_surface_type", "Light_conditions",
       "Types_of_Junction" >>

TestSteps == << "chi2_weather", "chi2_road", "chi2_light", "chi2_junction" >>

(* The steps of the script in source order *)
Pipeline ==
    << "load", "clean", "counts", "makedirs", "plot1", "plot2", "plot3",
       "plot4", "plot5", "plot6" >> \o TestSteps \o
    << "tests_df", "to_csv_clean", "to_csv_tests", "display", "print" >>

input   == << csv, rerun, fsBefore >>
frames  == << df, missing_before, df_clean >>
counts  == << counts_weather, counts_road, counts_light, counts_junction,
              counts_lanes, counts_cause >>
pivots  == << pivot_w_s, pivot_w_s_norm, pivot_heat >>
chi     == << var_i, table, tests, tests_df >>
disk    == << fs, dirExists, written >>

(* A step completes and the run goes on to the next statement *)
Goto(step, next) ==
    /\ pc' = next
    /\ err' = err
    /\ done' = Append(done, step)

(* The exception is swallowed and the run goes on with the next statement *)
RaiseAndGoOn(kind) ==
    /\ pc' = IF pc = "print" THEN "done"
             ELSE Pipeline[1 + CHOOSE i \in 1..Len(Pipeline) : Pipeline[i] = pc]
    /\ err' = kind
    /\ done' = done

(* A step raises: nothing catches it and the interpreter exits *)
Raise(kind) ==
    /\ pc' = "aborted"
    /\ err' = kind
    /\ done' = done

(* The figure is shown and never saved *)
savefig_skipped(name, data) ==
    /\ fs' = fs
    /\ written' = written
    /\ dirExists' = dirExists

(* plt.savefig(os.path.join(out_dir, name)) of a figure showing data *)
savefig(name, data) ==
    /\ fs' = WriteFile(fs, name, << data >>)
    /\ written' = written \cup { name }
    /\ dirExists' = dirExists

Init ==
    /\ csv \in Inputs
    /\ fs = [ n \in FileNames |-> Absent ]
    /\ dirExists = FALSE
    /\ pc = "load"
    /\ err = "none"
    /\ df = EmptyFrame
    /\ missing_before = << >>
    /\ df_clean = EmptyFrame
    /\ counts_weather = << >>
    /\ counts_road = << >>
    /\ counts_light = << >>
    /\ counts_junction = << >>
    /\ counts_lanes = << >>
    /\ counts_cause = << >>
    /\ pivot_w_s = EmptyTable
    /\ pivot_w_s_norm = EmptyTable
    /\ pivot_heat = EmptyTable
    /\ var_i = 1
    /\ table = EmptyTable
    /\ tests = << >>
    /\ tests_df = << >>
    /\ done = << >>
    /\ written = {}
    /\ rerun = FALSE
    /\ fsBefore = [ n \in FileNames |-> Absent ]

(* line 17 *)
Load ==
    /\ pc = "load"
    /\ IF csv.exists
       THEN /\ df' = read_csv(csv)
            /\ Goto("load", "clean")
       ELSE /\ df' = df
            /\ Raise("FileNotFoundError")
    /\ UNCHANGED << input, missing_before, df_clean, counts, pivots, chi, disk >>

(* lines 24-34 *)
Clean ==
    /\ pc = "clean"
    /\ IF Range(cols_of_interest) \subseteq Range(df.columns)
       THEN /\ missing_before' = isnull_sum(df, cols_of_interest)
            /\ df_clean' =
                 LET kept == dropna(df, cols_of_interest)
                 IN  IF IsObject(df, "Accident_severity")
                     THEN Categorical(kept, "Accident_severity",
                                      Sorted(unique(kept, "Accident_severity")))
                     ELSE kept
            /\ Goto("clean", "counts")
       ELSE /\ UNCHANGED << missing_before, df_clean >>
            /\ Raise("KeyError")
    /\ UNCHANGED << input, df, counts, pivots, chi, disk >>

(* The counts taken from df, the table before the rows were dropped *)
CountsOnRaw ==
    /\ pc = "counts"
    /\ counts_weather' = value_counts(df, "Weather_conditions")
    /\ counts_road' = value_counts(df, "Road_surface_type")
    /\ counts_light' = value_counts(df, "Light_conditions")
    /\ counts_junction' = value_counts(df, "Types_of_Junction")
    /\ counts_lanes' = value_counts(df, "Lanes_or_Medians")
    /\ counts_cause' = head(value_counts(df, "Cause_of_accident"), TopN)
    /\ Goto("counts", "makedirs")
    /\ UNCHANGED << input, frames, pivots, chi, disk >>

(* lines 37-42 *)
Counts ==
    /\ pc = "counts"
    /\ counts_weather' = value_counts(df_clean, "Weather_conditions")
    /\ counts_road' = value_counts(df_clean, "Road_surface_type")
    /\ counts_light' = value_counts(df_clean, "Light_conditions")
    /\ counts_junction' = value_counts(df_clean, "Types_of_Junction")
    /\ counts_lanes' = value_counts(df_clean, "Lanes_or_Medians")
    /\ counts_cause' = head(value_counts(df_clean, "Cause_of_accident"), TopN)
    /\ Goto("counts", "makedirs")
    /\ UNCHANGED << input, frames, pivots, chi, disk >>

(* lines 45-46: os.makedirs(out_dir, exist_ok=True) *)
MakeDirs ==
    /\ pc = "makedirs"
    /\ dirExists' = TRUE
    /\ Goto("makedirs", "plot1")
    /\ UNCHANGED << input, frames, counts, pivots, chi, fs, written >>

(* lines 48-59.  Series.plot(kind='bar') of an empty Series raises (the bar
   plot indexes its first tick position). *)
Plot1 ==
    /\ pc = "plot1"
    /\ IF Len(counts_weather) = 0
       THEN Raise("IndexError") /\ UNCHANGED disk
       ELSE savefig("weather_counts.png", counts_weather) /\ Goto("plot1", "plot2")
    /\ UNCHANGED << input, frames, counts, pivots, chi >>

(* lines 61-72 *)
Plot2 ==
    /\ pc = "plot2"
    /\ IF Len(counts_road) = 0
       THEN Raise("IndexError") /\ UNCHANGED disk
       ELSE savefig("road_surface_counts.png", counts_road) /\ Goto("plot2", "plot3")
    /\ UNCHANGED << input, frames, counts, pivots, chi >>

(* lines 74-85 *)
Plot3 ==
    /\ pc = "plot3"
    /\ IF Len(counts_light) = 0
       THEN Raise("IndexError") /\ UNCHANGED disk
       ELSE savefig("light_conditions_counts.png", counts_light)
            /\ Goto("plot3", "plot4")
    /\ UNCHANGED << input, frames, counts, pivots, chi >>

(* lines 87-96 *)
Plot4 ==
    /\ pc = "plot4"
    /\ IF Len(counts_cause) = 0
       THEN Raise("IndexError") /\ UNCHANGED disk
       ELSE savefig("top_causes.png", sort_values(counts_cause))
            /\ Goto("plot4", "plot5")
    /\ UNCHANGED << input, frames, counts, pivots, chi >>

(* lines 98-112.  DataFrame.plot of a frame with no column raises
   TypeError("no numeric data to plot"). *)
Plot5 ==
    /\ pc = "plot5"
    /\ pivot_w_s' = crosstab(df_clean, "Weather_conditions", "Accident_severity")
    /\ pivot_w_s_norm' = fillna0(div_rows(pivot_w_s'))
    /\ pivot_heat' = pivot_heat
    /\ IF Len(pivot_w_s_norm'.columns) = 0
       THEN Raise("TypeError") /\ UNCHANGED disk
       ELSE savefig("severity_by_weather_stacked.png", pivot_w_s_norm')
            /\ Goto("plot5", "plot6")
    /\ UNCHANGED << input, frames, counts, chi >>

(* lines 114-126 *)
Plot6 ==
    /\ pc = "plot6"
    /\ pivot_heat' = crosstab(df_clean, "Weather_conditions", "Road_surface_type")
    /\ savefig("weather_vs_road_heatmap.png", pivot_heat')
    /\ Goto("plot6", TestSteps[1])
    /\ UNCHANGED << input, frames, counts, pivot_w_s, pivot_w_s_norm, chi >>

(* lines 130-133: the dict run_chi2 returns for the table of variable v *)
run_chi2(t) == [ dof |-> chi2_contingency(t).dof, table_shape |-> shape(t) ]

(* lines 135-136: one pass of the loop, tests[var] = run_chi2(var) *)
RunChi2 ==
    /\ var_i \in 1..Len(TestVars)
    /\ pc = TestSteps[var_i]
    /\ table' = crosstab(df_clean, TestVars[var_i], "Accident_severity")
    /\ IF chi2_contingency(table').ok
       THEN /\ tests' = Append(tests, [ key |-> TestVars[var_i],
                                        val |-> run_chi2(table') ])
            /\ var_i' = var_i + 1
            /\ Goto(TestSteps[var_i],
                    IF var_i < Len(TestVars) THEN TestSteps[var_i + 1]
                    ELSE "tests_df")
       ELSE /\ UNCHANGED << tests, var_i >>
            /\ Raise("ValueError")
    /\ UNCHANGED << input, frames, counts, pivots, tests_df, disk >>

(* lines 139-140: a row per key of tests, the key in column "variable" *)
TestsDf ==
    /\ pc = "tests_df"
    /\ tests_df' = [ i \in 1..Len(tests) |->
                       [ variable    |-> tests[i].key,
                         dof         |-> tests[i].val.dof,
                         table_shape |-> tests[i].val.table_shape ] ]
    /\ Goto("tests_df", "to_csv_clean")
    /\ UNCHANGED << input, frames, counts, pivots, var_i, table, tests, disk >>

(* line 143 *)
WriteClean ==
    /\ pc = "to_csv_clean"
    /\ fs' = WriteFile(fs, "cleaned_for_analysis.csv", to_csv(df_clean))
    /\ written' = written \cup { "cleaned_for_analysis.csv" }
    /\ Goto("to_csv_clean", "to_csv_tests")
    /\ UNCHANGED << input, frames, counts, pivots, chi, dirExists >>

(* line 144 *)
WriteSummary ==
    /\ pc = "to_csv_tests"
    /\ fs' = WriteFile(fs, "chi2_tests_summary.csv", summary_csv(tests_df))
    /\ written' = written \cup { "chi2_tests_summary.csv" }
    /\ Goto("to_csv_tests", "display")
    /\ UNCHANGED << input, frames, counts, pivots, chi, dirExists >>

(* lines 147-150: caas_jupyter_tools is there or the import raises *)
Display ==
    /\ pc = "display"
    /\ \/ Goto("display", "print")
       \/ Raise("ImportError")
    /\ UNCHANGED << input, frames, counts, pivots, chi, disk >>

(* lines 152-153 *)
PrintSaved ==
    /\ pc = "print"
    /\ Goto("print", "done")
    /\ UNCHANGED << input, frames, counts, pivots, chi, disk >>

(* The script is started again on the same input file; the files of the
   first run are still there. *)
Rerun ==
    /\ pc \in { "done", "aborted" }
    /\ ~rerun
    /\ rerun' = TRUE
    /\ fsBefore' = fs
    /\ pc' = "load"
    /\ err' = "none"
    /\ df' = EmptyFrame
    /\ missing_before' = << >>
    /\ df_clean' = EmptyFrame
    /\ counts_weather' = << >>
    /\ counts_road' = << >>
    /\ counts_light' = << >>
    /\ counts_junction' = << >>
    /\ counts_lanes' = << >>
    /\ counts_cause' = << >>
    /\ pivot_w_s' = EmptyTable
    /\ pivot_w_s_norm' = EmptyTable
    /\ pivot_heat' = EmptyTable
    /\ var_i' = 1
    /\ table' = EmptyTable
    /\ tests' = << >>
    /\ tests_df' = << >>
    /\ done' = << >>
    /\ written' = {}
    /\ UNCHANGED << csv, fs, dirExists >>

Next ==
    \/ Load
    \/ Clean
    \/ Counts
    \/ MakeDirs
    \/ Plot1
    \/ Plot2
    \/ Plot3
    \/ Plot4
    \/ Plot5
    \/ Plot6
    \/ RunChi2
    \/ TestsDf
    \/ WriteClean
    \/ WriteSummary
    \/ Display
    \/ PrintSaved
    \/ Rerun

Spec == Init /\ [][Next]_vars

----------------------------------------------------------------------------
(* Properties *)

Did(step) == step \in Range(done)

Rows(frame) == Len(frame.rows)

Total(s) == SumSeq([ k \in 1..Len(s) |-> s[k].count ])

IsPrefix(s, t) == Len(s) <= Len(t) /\ \A i \in 1..Len(s) : s[i] = t[i]

CleanedFile == fs["cleaned_for_analysis.csv"]

SummaryFile == fs["chi2_tests_summary.csv"]

(* C1: once the cleaning step has run, no row of df_clean has a missing value
   in any of the eight key columns, and the cleaned_for_analysis.csv this
   run writes holds exactly those rows, none with an empty cell. *)
C1_NoNullAfterCleaning ==
    /\ Did("clean") =>
         \A i \in 1..Rows(df_clean), c \in Range(cols_of_interest) :
            df_clean.rows[i][c] # NaN
    /\ "cleaned_for_analysis.csv" \in written =>
         /\ CleanedFile.exists
         /\ Len(CleanedFile.data) = 1 + Rows(df_clean)
         /\ CleanedFile.data[1] = cols_of_interest
         /\ \A k \in 2..Len(CleanedFile.data), j \in 1..Len(cols_of_interest) :
              CleanedFile.data[k][j] \notin NaStrings \cup { NaN }

(* C1 witness: the file is written after rows with a missing key field were
   dropped and other rows were kept. *)
C1_Witness ==
    /\ "cleaned_for_analysis.csv" \in written
    /\ Rows(df_clean) >= 2
    /\ Rows(df_clean) < Rows(df)
    /\ \E c \in Range(cols_of_interest) : missing_before[c] > 0

(* C2 as stated: the counts of each of the six frequency tables, counts_cause
   included, add up to the number of cleaned rows. *)
C2_AllSixSumToRows ==
    Did("counts") =>
        \A t \in { counts_weather, counts_road, counts_light, counts_junction,
                   counts_lanes, counts_cause } : Total(t) = Rows(df_clean)

(* C2 amended: the counts of the five untruncated tables add up to the number
   of cleaned rows; those of counts_cause add up to it when at most TopN
   causes occur, and to less when more do. *)
C2_SumsExceptTruncated ==
    Did("counts") =>
        /\ \A t \in { counts_weather, counts_road, counts_light,
                      counts_junction, counts_lanes } : Total(t) = Rows(df_clean)
        /\ Total(counts_cause) <= Rows(df_clean)
        /\ Total(counts_cause) = Rows(df_clean)
             <=> Cardinality(unique(df_clean, "Cause_of_accident")) <= TopN

(* C2 witness: counts are taken of a table with more than TopN causes, and
   those of counts_cause add up to less than the number of rows. *)
C2_Witness ==
    /\ Did("counts")
    /\ Cardinality(unique(df_clean, "Cause_of_accident")) > TopN
    /\ Total(counts_cause) < Rows(df_clean)

(* The sum of a sequence of fractions, by cross-multiplication *)
RECURSIVE SumFrac(_)
SumFrac(s) ==
    IF Len(s) = 0 THEN [ n |-> 0, d |-> 1 ]
    ELSE LET r == SumFrac(Tail(s))
         IN  [ n |-> s[1].n * r.d + r.n * s[1].d, d |-> s[1].d * r.d ]

NormRow(t, x) == [ j \in 1..Len(t.columns) |-> t.cells[<< x, t.columns[j] >>] ]

RowsNormalized(counted, norm) ==
    \A x \in Range(counted.index) :
        IF RowTotal(counted, x) # 0
        THEN LET q == SumFrac(NormRow(norm, x)) IN q.d # 0 /\ q.n = q.d
        ELSE \A j \in 1..Len(norm.columns) :
                NormRow(norm, x)[j].n = 0 /\ NormRow(norm, x)[j].d # 0

(* Count tables with a first row of zeros *)
ZeroRowTables ==
    { [ index   |-> << "Clear", "Rain" >>,
        columns |-> << "Fatal", "Slight" >>,
        cells   |-> [ p \in { "Clear", "Rain" } \X { "Fatal", "Slight" } |->
                        IF p[1] = "Clear" THEN 0
                        ELSE IF p[2] = "Fatal" THEN a ELSE b ] ]
      : a \in 0..2, b \in 0..2 }

(* C3: in pivot_w_s_norm the entries of each row of pivot_w_s with a nonzero
   total add up to 1, and the entries of a row with total zero are all 0;
   the normalisation of line 101 does the same to a table that has a row of
   zeros. *)
C3_RowsSumToOne ==
    Did("plot5") =>
        /\ pivot_w_s_norm.index = pivot_w_s.index
        /\ pivot_w_s_norm.columns = pivot_w_s.columns
        /\ RowsNormalized(pivot_w_s, pivot_w_s_norm)
        /\ \A t \in ZeroRowTables : RowsNormalized(t, fillna0(div_rows(t)))

(* C3 witness: a normalised row with two nonzero entries of different size *)
C3_Witness ==
    /\ Did("plot5")
    /\ \E x \in Range(pivot_w_s.index), y, z \in Range(pivot_w_s.columns) :
         /\ pivot_w_s.cells[<< x, y >>] > 0
         /\ pivot_w_s.cells[<< x, z >>] > pivot_w_s.cells[<< x, y >>]

(* C4: every test result has dof = (r-1)*(c-1) for its table_shape (r, c),
   r the number of values of its variable and c the number of severities in
   the cleaned table; so does every row of tests_df. *)
C4_DofOfShape ==
    /\ \A k \in 1..Len(tests) :
         LET r == tests[k].val.table_shape[1]
             c == tests[k].val.table_shape[2]
         IN  /\ tests[k].key = TestVars[k]
             /\ r = Cardinality(unique(df_clean, tests[k].key))
             /\ c = Cardinality(unique(df_clean, "Accident_severity"))
             /\ tests[k].val.dof = (r - 1) * (c - 1)
    /\ \A k \in 1..Len(tests_df) :
         tests_df[k].dof = (tests_df[k].table_shape[1] - 1)
                             * (tests_df[k].table_shape[2] - 1)

(* C4 witness: the four tests ran, the weather test on a 2x2 table with no
   zero cell, and it recorded dof 1. *)
C4_Witness ==
    /\ Len(tests_df) = Len(TestVars)
    /\ tests[1].val.table_shape = << 2, 2 >>
    /\ tests[1].val.dof = 1
    /\ \A p \in DOMAIN pivot_w_s.cells : pivot_w_s.cells[p] > 0

(* C5 as stated: a run whose cleaned table is empty does not end before it
   has written cleaned_for_analysis.csv, as a header-only file. *)
C5_EmptyReachesExport ==
    (Did("clean") /\ Rows(df_clean) = 0 /\ pc = "aborted") =>
        /\ "cleaned_for_analysis.csv" \in written
        /\ CleanedFile.data = << df_clean.columns >>

(* C6 as stated: a run that completes has written seven images and the two
   CSV files. *)
C6_SevenImages ==
    pc = "done" =>
        /\ dirExists
        /\ CsvFiles \subseteq written
        /\ Cardinality(written \ CsvFiles) = 7

(* C6 amended: a run that completes has written exactly the six images the
   spec names and the two CSV files, and out_dir and all eight files exist. *)
C6_SixImagesTwoCsv ==
    pc = "done" =>
        /\ dirExists
        /\ written = Images \cup CsvFiles
        /\ Cardinality(Images) = 6
        /\ Cardinality(written) = 8
        /\ \A f \in written : fs[f].exists

(* C6 witness: a first run has completed on a table with several rows *)
C6_Witness == pc = "done" /\ ~rerun /\ Rows(df_clean) >= 2

Charts == { "plot1", "plot2", "plot3", "plot4", "plot5", "plot6" }

(* C7: the steps a run has completed are a prefix of the script's sequence;
   a run ended by a missing file or a missing column has created no
   directory and written no file; and a run has written a CSV file only
   after all six charts and all four tests. *)
C7_StepsFormPrefix ==
    /\ IsPrefix(done, Pipeline)
    /\ pc = "aborted" => Len(done) < Len(Pipeline)
    /\ err \in { "FileNotFoundError", "KeyError" } =>
         /\ written = {}
         /\ ~Did("makedirs")
         /\ ~rerun => (~dirExists /\ \A f \in FileNames : ~fs[f].exists)
    /\ (dirExists /\ ~rerun) => (Did("load") /\ Did("clean") /\ Did("counts"))
    /\ written # {} => Did("makedirs")
    /\ written \cap CsvFiles # {} =>
         \A step \in Charts \cup Range(TestSteps) : Did(step)
    /\ "chi2_tests_summary.csv" \in written => "cleaned_for_analysis.csv" \in written

(* C7 witness: a run was ended by a missing column *)
C7_Witness == pc = "aborted" /\ err = "KeyError" /\ done = << "load" >>

(* C8: when a second run on the same input has ended, every file is as the
   first run left it; the summary has one row per tested variable, in the
   order of line 135, and the file holds those rows once. *)
C8_RerunSameFiles ==
    /\ (rerun /\ pc \in { "done", "aborted" }) => fs = fsBefore
    /\ Did("tests_df") => [ k \in 1..Len(tests_df) |-> tests_df[k].variable ] = TestVars
    /\ "chi2_tests_summary.csv" \in written =>
         /\ Len(SummaryFile.data) = 1 + Len(TestVars)
         /\ \A k \in 1..Len(TestVars) : SummaryFile.data[k + 1][1] = TestVars[k]

(* C8 witness: a second run has completed and both CSV files hold rows *)
C8_Witness ==
    /\ rerun
    /\ pc = "done"
    /\ Rows(df_clean) >= 2
    /\ CleanedFile.exists
    /\ SummaryFile.exists

(* C9: counts_cause has min(TopN, number of causes in the cleaned table)
   entries, one per cause with that cause's count, in descending order of
   count, and no cause left out has a larger count than a cause kept. *)
C9_TopCauses ==
    Did("counts") =>
        LET causes == unique(df_clean, "Cause_of_accident")
            kept   == { counts_cause[k].value : k \in 1..Len(counts_cause) }
        IN  /\ Len(counts_cause) = Min(TopN, Cardinality(causes))
            /\ Cardinality(kept) = Len(counts_cause)
            /\ kept \subseteq causes
            /\ \A k \in 1..Len(counts_cause) :
                 counts_cause[k].count =
                    Occurrences(df_clean, "Cause_of_accident", counts_cause[k].value)
            /\ \A k \in 1..(Len(counts_cause) - 1) :
                 counts_cause[k].count >= counts_cause[k + 1].count
            /\ \A v \in causes \ kept, k \in 1..Len(counts_cause) :
                 Occurrences(df_clean, "Cause_of_accident", v) <= counts_cause[k].count

(* C9 witness: more than TopN causes occur, a cause that first appears after
   TopN others is kept, and the counts kept are not all equal. *)
C9_Witness ==
    /\ Did("counts")
    /\ Cardinality(unique(df_clean, "Cause_of_accident")) > TopN
    /\ Len(counts_cause) = TopN
    /\ counts_cause[1].count > counts_cause[TopN].count
    /\ counts_cause[1].value = CauseNames[TopN + 1]

(* Table t is the cross-tabulation of columns a and b of the cleaned table:
   its labels are the values that occur, every row and column total is at
   least 1, the cells add up to the number of rows, and no expected count
   is zero. *)
Occupied(t, a, b) ==
    /\ Range(t.index) = unique(df_clean, a)
    /\ Range(t.columns) = unique(df_clean, b)
    /\ \A x \in Range(t.index) : RowTotal(t, x) >= 1
    /\ \A y \in Range(t.columns) : ColTotal(t, y) >= 1
    /\ GrandTotal(t) = Rows(df_clean)
    /\ GrandTotal(t) >= 1
    /\ \A x \in Range(t.index), y \in Range(t.columns) :
         RowTotal(t, x) * ColTotal(t, y) > 0

(* C10: every contingency table the run builds has rows and columns only
   for values that occur in the cleaned table, so its totals are at least 1,
   its cells add up to the number of cleaned rows, no expected count is zero
   and no row of the severity-by-weather table has total zero. *)
C10_TablesOccupied ==
    /\ Did("plot5") =>
         /\ Occupied(pivot_w_s, "Weather_conditions", "Accident_severity")
         /\ \A p \in DOMAIN pivot_w_s_norm.cells : pivot_w_s_norm.cells[p].d >= 1
         /\ \A x \in Range(pivot_w_s.index) :
              \E j \in 1..Len(pivot_w_s.columns) : NormRow(pivot_w_s_norm, x)[j].n > 0
    /\ Did("plot6") =>
         Occupied(pivot_heat, "Weather_conditions", "Road_surface_type")
    /\ \A k \in 1..Len(TestVars) :
         var_i = k + 1 => Occupied(table, TestVars[k], "Accident_severity")
    /\ err # "ValueError"

(* C10 witness: the four tests ran and the severity-by-weather table has a
   cell of zero. *)
C10_Witness ==
    /\ Did(TestSteps[Len(TestSteps)])
    /\ Len(pivot_w_s.index) >= 2
    /\ Len(pivot_w_s.columns) >= 2
    /\ \E p \in DOMAIN pivot_w_s.cells : pivot_w_s.cells[p] = 0

====
